---- MODULE Spec2Model ----
(***************************************************************************)
(* Model of dbag/models.py: the MetricManager registry, the persisted      *)
(* Metric / DatumSample / Dashboard / DashboardPanel records, metric       *)
(* creation and the collection workflow.                                   *)
(*                                                                         *)
(* Strings that the code transforms (labels, slugs) are sequences of       *)
(* one-character strings; database tables are sequences of rows whose      *)
(* index is the auto-increment primary key.                                *)
(***************************************************************************)
EXTENDS Integers, Sequences, FiniteSets, TLC

\* ---------------------------------------------------------------- bounds
MaxSamples == 2
MaxTime == 1

\* ---------------------------------------------------------------- inputs
None == "None"

TypeLabels == {"a", "b"}
Strategies == {"Constant5", "Constant7", "Failing"}

\* labels passed to create_metric; slugify maps the first two to "u" and the
\* third to "u-u"
Labels == { <<"U">>, <<"u">>, <<" ", "U", " ", "-", "u", "!">> }
NoSlug == [given |-> FALSE, value |-> <<>>]
SlugArgs == { NoSlug,
              [given |-> TRUE, value |-> <<>>],
              [given |-> TRUE, value |-> <<"u">>] }
DashboardSlugs == {"d1", "d2"}

VARIABLES
    registry,    \* MetricManager._registry: function label -> strategy
    history,     \* ghost: per label, the last register/unregister call
    metrics,     \* table Metric: sequence of rows, index = id
    samples,     \* table DatumSample: sequence of rows, index = id
    clock,       \* last value read from datetime.utcnow()
    dashboards,  \* table Dashboard
    panels,      \* table DashboardPanel
    held,        \* what a caller of get_metric_types holds
    last         \* ghost: the last call, its arguments and its outcome

vars == <<registry, history, metrics, samples, clock, dashboards, panels, held, last>>

\* ------------------------------------------------------------- slugify
IsWord(c) == c \in {"U", "u"}
IsSpace(c) == c = " "
IsHyphen(c) == c = "-"

ToLower(c) == IF c = "U" THEN "u" ELSE c

\* re.sub('[^\w\s-]', '', value)
RECURSIVE RemoveInvalid(_)
RemoveInvalid(s) ==
    IF s = <<>> THEN <<>>
    ELSE IF IsWord(Head(s)) \/ IsSpace(Head(s)) \/ IsHyphen(Head(s))
         THEN <<Head(s)>> \o RemoveInvalid(Tail(s))
         ELSE RemoveInvalid(Tail(s))

RECURSIVE LStrip(_)
LStrip(s) ==
    IF s # <<>> /\ IsSpace(Head(s)) THEN LStrip(Tail(s)) ELSE s

RECURSIVE RStrip(_)
RStrip(s) ==
    IF s # <<>> /\ IsSpace(s[Len(s)]) THEN RStrip(SubSeq(s, 1, Len(s) - 1)) ELSE s

Strip(s) == RStrip(LStrip(s))

Lower(s) == [i \in 1..Len(s) |-> ToLower(s[i])]

\* re.sub('[-\s]+', '-', value)
RECURSIVE CollapseSeparators(_)
CollapseSeparators(s) ==
    IF s = <<>> THEN <<>>
    ELSE IF IsSpace(Head(s)) \/ IsHyphen(Head(s))
         THEN IF Tail(s) # <<>> /\ (IsSpace(Head(Tail(s))) \/ IsHyphen(Head(Tail(s))))
              THEN CollapseSeparators(Tail(s))
              ELSE <<"-">> \o CollapseSeparators(Tail(s))
         ELSE <<Head(s)>> \o CollapseSeparators(Tail(s))

slugify(label) == CollapseSeparators(Lower(Strip(RemoveInvalid(label))))

\* ------------------------------------------------------------ registry
\* dict.get(label): the strategy, or None when the key is missing
get_metric_type(reg, label) ==
    IF label \in DOMAIN reg THEN reg[label] ELSE None

\* dict.setdefault in place of item assignment: an existing key keeps its value
DictSetDefault(reg, label, value) ==
    [l \in (DOMAIN reg) \cup {label} |-> IF l \in DOMAIN reg THEN reg[l] ELSE value]

DictSet(reg, label, value) ==
    [l \in (DOMAIN reg) \cup {label} |-> IF l = label THEN value ELSE reg[l]]

DictPop(reg, label) ==
    [l \in (DOMAIN reg) \ {label} |-> reg[l]]

Init ==
    /\ registry = << >>
    /\ history = [l \in TypeLabels |-> [op |-> "never", strategy |-> None]]
    /\ metrics = << >>
    /\ samples = << >>
    /\ clock = 0
    /\ dashboards = << >>
    /\ panels = << >>
    /\ held = [kind |-> "nothing", value |-> << >>]
    /\ last = [op |-> "init", err |-> "none"]

register_metric_type(label, metric_type) ==
    /\ registry' = DictSet(registry, label, metric_type)
    /\ history' = [history EXCEPT ![label] = [op |-> "register", strategy |-> metric_type]]
    /\ last' = [op |-> "register_metric_type", label |-> label,
                strategy |-> metric_type,
                replaced |-> get_metric_type(registry, label), err |-> "none"]
    /\ UNCHANGED <<metrics, samples, clock, dashboards, panels, held>>

\* dict.pop(label) without a default raises KeyError when the key is missing
unregister_metric_type(label) ==
    /\ registry' = DictPop(registry, label)
    /\ history' = [history EXCEPT ![label] = [op |-> "unregister", strategy |-> None]]
    /\ last' = [op |-> "unregister_metric_type", label |-> label,
                err |-> IF label \in DOMAIN registry THEN "none" ELSE "KeyError"]
    /\ UNCHANGED <<metrics, samples, clock, dashboards, panels, held>>

\* ------------------------------------------------------- create_metric
SlugTaken(rows, slug) == \E i \in 1..Len(rows) : rows[i].slug = slug

\* "if slug is None" in place of "if not slug": an empty slug is kept
ResolvedSlugIsNone(label, slug) ==
    IF ~slug.given THEN slugify(label) ELSE slug.value

\* the slug create_metric passes to Metric.objects.create
ResolvedSlug(label, slug) ==
    IF (~slug.given) \/ slug.value = <<>> THEN slugify(label) ELSE slug.value

NewMetric(metric_type_label, label, slug) ==
    [metric_type_label |-> metric_type_label, label |-> label,
     slug |-> slug, do_collect |-> TRUE]

\* create_metric without the registry check
create_metric_unchecked(metric_type_label, label, slug) ==
    LET s == ResolvedSlug(label, slug)
        call == [op |-> "create_metric", metric_type_label |-> metric_type_label,
                 label |-> label, slug |-> slug]
    IN
    /\ IF SlugTaken(metrics, s)
       THEN /\ last' = call @@ [err |-> "IntegrityError"]
            /\ metrics' = metrics
       ELSE /\ last' = call @@ [err |-> "none"]
            /\ metrics' = Append(metrics, NewMetric(metric_type_label, label, s))
    /\ UNCHANGED <<registry, history, samples, clock, dashboards, panels, held>>

create_metric(metric_type_label, label, slug) ==
    LET s == ResolvedSlug(label, slug)
        call == [op |-> "create_metric", metric_type_label |-> metric_type_label,
                 label |-> label, slug |-> slug]
    IN
    /\ IF get_metric_type(registry, metric_type_label) = None
       THEN /\ last' = call @@ [err |-> "StrategyNotFound"]
            /\ metrics' = metrics
       ELSE IF SlugTaken(metrics, s)
       THEN /\ last' = call @@ [err |-> "IntegrityError"]
            /\ metrics' = metrics
       ELSE /\ last' = call @@ [err |-> "none"]
            /\ metrics' = Append(metrics, NewMetric(metric_type_label, label, s))
    /\ UNCHANGED <<registry, history, samples, clock, dashboards, panels, held>>

\* ---------------------------------------------------------- do_collect
\* Metric.do_collect edited and saved through the ORM
set_do_collect(m, value) ==
    /\ m \in 1..Len(metrics)
    /\ metrics' = [metrics EXCEPT ![m].do_collect = value]
    /\ last' = [op |-> "set_do_collect", metric |-> m, value |-> value, err |-> "none"]
    /\ UNCHANGED <<registry, history, samples, clock, dashboards, panels, held>>

\* ---------------------------------------------------------- collection
\* strategy().gather_data_sample(metric): returns a value or raises
gather_data_sample(strategy, metric) ==
    CASE strategy = "Constant5" -> [raised |-> FALSE, value |-> 5]
      [] strategy = "Constant7" -> [raised |-> FALSE, value |-> 7]
      [] OTHER -> [raised |-> TRUE, value |-> 0]

\* update_or_create keyed on the metric: the metric's newest row is overwritten
CreateSampleUpsert(rows, m, now, data_value) ==
    LET row == [metric |-> m, utc_timestamp |-> now, value |-> data_value]
        mine == {i \in 1..Len(rows) : rows[i].metric = m}
    IN IF mine = {}
       THEN Append(rows, row)
       ELSE [rows EXCEPT ![CHOOSE i \in mine : \A j \in mine : j <= i] = row]

\* DatumSample.objects.create(metric=, utc_timestamp=, value=)
CreateSample(rows, m, now, data_value) ==
    Append(rows, [metric |-> m, utc_timestamp |-> now, value |-> data_value])

\* Metric.collect_metric on metric m when utcnow() reads now: calling the
\* None returned for a missing label is a TypeError
CollectOne(reg, mrows, rows, m, now) ==
    LET metric_type_cls == get_metric_type(reg, mrows[m].metric_type_label)
    IN IF metric_type_cls = None
       THEN [err |-> "TypeError", samples |-> rows, clock |-> None]
       ELSE LET data_value == gather_data_sample(metric_type_cls, mrows[m])
            IN IF data_value.raised
               THEN [err |-> "StrategyError", samples |-> rows, clock |-> None]
               ELSE [err |-> "none", samples |-> CreateSample(rows, m, now, data_value.value),
                     clock |-> now]

collect_metric(m) ==
    /\ m \in 1..Len(metrics)
    /\ Len(samples) < MaxSamples
    /\ \E now \in clock..MaxTime :
         LET r == CollectOne(registry, metrics, samples, m, now)
         IN /\ samples' = r.samples
            /\ clock' = IF r.err = "none" THEN r.clock ELSE clock
            /\ last' = [op |-> "collect_metric", metric |-> m, err |-> r.err]
    /\ UNCHANGED <<registry, history, metrics, dashboards, panels, held>>

\* Metric.objects.filter(do_collect=True)
Collectible(mrows) == {m \in 1..Len(mrows) : mrows[m].do_collect}

\* the orders in which the query may return a set of rows (no ORDER BY)
Orders(S) ==
    {o \in [1..Cardinality(S) -> S] : \A i, j \in 1..Cardinality(S) : o[i] = o[j] => i = j}

\* the readings successive utcnow() calls may give, starting after clk
Readings(n, clk) ==
    {t \in [1..n -> clk..MaxTime] : \A i \in 1..n : i > 1 => t[i-1] <= t[i]}

\* a loop that catches the exception of one metric and goes on to the next
RECURSIVE CollectLoopSkipping(_, _, _, _, _, _, _)
CollectLoopSkipping(reg, mrows, order, times, i, rows, clk) ==
    IF i > Len(order)
    THEN [err |-> "none", failedAt |-> 0, samples |-> rows, clock |-> clk]
    ELSE LET r == CollectOne(reg, mrows, rows, order[i], times[i])
         IN IF r.err # "none"
            THEN LET rest == CollectLoopSkipping(reg, mrows, order, times, i + 1, rows, clk)
                 IN [err |-> r.err, failedAt |-> i, samples |-> rest.samples,
                     clock |-> rest.clock]
            ELSE CollectLoopSkipping(reg, mrows, order, times, i + 1, r.samples, r.clock)

\* the for loop of collect_metrics from position i on: the first exception
\* leaves the loop
RECURSIVE CollectLoop(_, _, _, _, _, _, _)
CollectLoop(reg, mrows, order, times, i, rows, clk) ==
    IF i > Len(order)
    THEN [err |-> "none", failedAt |-> 0, samples |-> rows, clock |-> clk]
    ELSE LET r == CollectOne(reg, mrows, rows, order[i], times[i])
         IN IF r.err # "none"
            THEN [err |-> r.err, failedAt |-> i, samples |-> rows, clock |-> clk]
            ELSE CollectLoop(reg, mrows, order, times, i + 1, r.samples, r.clock)

collect_metrics ==
    /\ Len(samples) + Cardinality(Collectible(metrics)) <= MaxSamples
    /\ \E order \in Orders(Collectible(metrics)) :
       \E times \in Readings(Len(order), clock) :
         LET r == CollectLoop(registry, metrics, order, times, 1, samples, clock)
         IN /\ samples' = r.samples
            /\ clock' = r.clock
            /\ last' = [op |-> "collect_metrics", order |-> order,
                        failedAt |-> r.failedAt, err |-> r.err]
    /\ UNCHANGED <<registry, history, metrics, dashboards, panels, held>>

\* ---------------------------------------------------- get_latest_sample
SamplesOf(rows, m) == {i \in 1..Len(rows) : rows[i].metric = m}

\* ordering = ['utc_timestamp']: oldest first
FirstInOrderingAscending(rows, m) ==
    {i \in SamplesOf(rows, m) :
        \A j \in SamplesOf(rows, m) : rows[i].utc_timestamp <= rows[j].utc_timestamp}

\* the rows that DatumSample.objects.filter(metric=m) may put first under
\* ordering = ['-utc_timestamp']; rows with equal timestamps come in an
\* order the database chooses
FirstInOrdering(rows, m) ==
    {i \in SamplesOf(rows, m) :
        \A j \in SamplesOf(rows, m) : rows[j].utc_timestamp <= rows[i].utc_timestamp}

get_latest_sample(m) ==
    /\ m \in 1..Len(metrics)
    /\ IF SamplesOf(samples, m) = {}
       THEN last' = [op |-> "get_latest_sample", metric |-> m, ret |-> 0,
                     err |-> "IndexError"]
       ELSE \E i \in FirstInOrdering(samples, m) :
              last' = [op |-> "get_latest_sample", metric |-> m, ret |-> i,
                       err |-> "none"]
    /\ UNCHANGED <<registry, history, metrics, samples, clock, dashboards, panels, held>>

\* ------------------------------------------------ dashboards and panels
\* Dashboard.objects.create(slug=...): slug is unique
create_dashboard(slug) ==
    /\ IF SlugTaken(dashboards, slug)
       THEN /\ last' = [op |-> "create_dashboard", slug |-> slug, err |-> "IntegrityError"]
            /\ dashboards' = dashboards
       ELSE /\ last' = [op |-> "create_dashboard", slug |-> slug, err |-> "none"]
            /\ dashboards' = Append(dashboards, [slug |-> slug])
    /\ UNCHANGED <<registry, history, metrics, samples, clock, panels, held>>

\* unique on the metric column alone
PairTakenMetricOnly(rows, m, d) ==
    \E i \in 1..Len(rows) : rows[i].metric = m

\* unique_together = ('metric', 'dashboard')
PairTaken(rows, m, d) ==
    \E i \in 1..Len(rows) : rows[i].metric = m /\ rows[i].dashboard = d

\* DashboardPanel.objects.create(metric=m, dashboard=d)
attach_panel(m, d) ==
    /\ m \in 1..Len(metrics)
    /\ d \in 1..Len(dashboards)
    /\ IF PairTaken(panels, m, d)
       THEN /\ last' = [op |-> "attach_panel", metric |-> m, dashboard |-> d,
                        err |-> "IntegrityError"]
            /\ panels' = panels
       ELSE /\ last' = [op |-> "attach_panel", metric |-> m, dashboard |-> d,
                        err |-> "none"]
            /\ panels' = Append(panels, [metric |-> m, dashboard |-> d,
                                         do_display |-> TRUE, show_sparkline |-> TRUE])
    /\ UNCHANGED <<registry, history, metrics, samples, clock, dashboards, held>>

\* ---------------------------------------------------- get_metric_types
\* the content of the mapping a caller holds: a reference to the registry's
\* dict reads the dict as it is now, a copy reads what was copied
Deref(h, reg) == IF h.kind = "reference" THEN reg ELSE h.value

\* return dict(self._registry): a copy made at the time of the call
get_metric_types_copy ==
    /\ held' = [kind |-> "copy", value |-> registry]
    /\ last' = [op |-> "get_metric_types", err |-> "none"]
    /\ UNCHANGED <<registry, history, metrics, samples, clock, dashboards, panels>>

\* return self._registry: the dict object itself
get_metric_types ==
    /\ held' = [kind |-> "reference", value |-> << >>]
    /\ last' = [op |-> "get_metric_types", err |-> "none"]
    /\ UNCHANGED <<registry, history, metrics, samples, clock, dashboards, panels>>

\* the caller assigns returned[label] = strategy
returned_setitem(label, strategy) ==
    /\ held.kind # "nothing"
    /\ IF held.kind = "reference"
       THEN /\ registry' = DictSet(registry, label, strategy)
            /\ held' = held
       ELSE /\ held' = [held EXCEPT !.value = DictSet(held.value, label, strategy)]
            /\ registry' = registry
    /\ last' = [op |-> "returned_setitem", label |-> label, strategy |-> strategy,
                err |-> "none"]
    /\ UNCHANGED <<history, metrics, samples, clock, dashboards, panels>>

\* the caller deletes returned[label]
returned_delitem(label) ==
    /\ held.kind # "nothing"
    /\ label \in DOMAIN Deref(held, registry)
    /\ IF held.kind = "reference"
       THEN /\ registry' = DictPop(registry, label)
            /\ held' = held
       ELSE /\ held' = [held EXCEPT !.value = DictPop(held.value, label)]
            /\ registry' = registry
    /\ last' = [op |-> "returned_delitem", label |-> label, err |-> "none"]
    /\ UNCHANGED <<history, metrics, samples, clock, dashboards, panels>>

Next ==
    \/ \E l \in TypeLabels, s \in Strategies : register_metric_type(l, s)
    \/ \E l \in TypeLabels : unregister_metric_type(l)
    \/ \E tl \in TypeLabels, l \in Labels, s \in SlugArgs : create_metric(tl, l, s)

Spec == Init /\ [][Next]_vars

\* the collection workflow, over fewer creation inputs
MetricIds == 1..2
\* the (label, strategy) pairs registered: "a" with a strategy that returns or
\* one that raises, "b" with one that returns
CollectTypes == { <<"a", "Constant5">>, <<"a", "Failing">>, <<"b", "Constant5">> }
CollectLabels == { <<"U">>, <<" ", "U", " ", "-", "u", "!">> }

NextCollect ==
    \/ \E t \in CollectTypes : register_metric_type(t[1], t[2])
    \/ \E l \in TypeLabels : unregister_metric_type(l)
    \/ \E tl \in TypeLabels, l \in CollectLabels : create_metric(tl, l, NoSlug)
    \/ \E m \in MetricIds, b \in BOOLEAN : set_do_collect(m, b)
    \/ \E m \in MetricIds : collect_metric(m)
    \/ collect_metrics
    \/ \E m \in MetricIds : get_latest_sample(m)

SpecCollect == Init /\ [][NextCollect]_vars

\* dashboards and their panels
DashboardIds == 1..2

NextPanels ==
    \/ \E l \in TypeLabels : register_metric_type(l, "Constant5")
    \/ \E tl \in TypeLabels, l \in CollectLabels : create_metric(tl, l, NoSlug)
    \/ \E s \in DashboardSlugs : create_dashboard(s)
    \/ \E m \in MetricIds, d \in DashboardIds : attach_panel(m, d)

SpecPanels == Init /\ [][NextPanels]_vars

\* the registry and the mapping handed out by get_metric_types
NextTypes ==
    \/ \E l \in TypeLabels, s \in Strategies : register_metric_type(l, s)
    \/ \E l \in TypeLabels : unregister_metric_type(l)
    \/ get_metric_types
    \/ \E l \in TypeLabels, s \in Strategies : returned_setitem(l, s)
    \/ \E l \in TypeLabels : returned_delitem(l)

SpecTypes == Init /\ [][NextTypes]_vars

\* ================================================================ claims
Count(rows, m) == Cardinality(SamplesOf(rows, m))
Registered(m) == metrics[m].metric_type_label \in DOMAIN registry
StrategyRaises(m) ==
    Registered(m) /\ gather_data_sample(registry[metrics[m].metric_type_label], metrics[m]).raised
NoStrategyRaises == \A m \in Collectible(metrics) : ~StrategyRaises(m)

\* C2: create_metric with a metric_type_label that is not registered fails
\* with the "strategy not found" error and changes neither the stored
\* Metrics nor the registry.
C2_UnregisteredCreateFails ==
    [][ (last'.op = "create_metric" /\ last'.metric_type_label \notin DOMAIN registry)
        => /\ last'.err = "StrategyNotFound"
           /\ metrics' = metrics
           /\ registry' = registry ]_vars

\* a create_metric call failed for a label under which a stored Metric was
\* created earlier, so the label was registered and later unregistered
C2_Witness ==
    /\ last.op = "create_metric"
    /\ last.err = "StrategyNotFound"
    /\ history[last.metric_type_label].op = "unregister"
    /\ \E m \in 1..Len(metrics) : metrics[m].metric_type_label = last.metric_type_label

\* C3: get_metric_type(label) is the strategy of the last register call for the
\* label when no unregister of it followed, and None when the label was never
\* registered or its last call was an unregister; a register or unregister of
\* one label leaves what every other label resolves to unchanged.
C3_LastWriteWins ==
    /\ [](\A l \in TypeLabels :
            get_metric_type(registry, l) =
                IF history[l].op = "register" THEN history[l].strategy ELSE None)
    /\ [][ last'.op \in {"register_metric_type", "unregister_metric_type"}
           => \A l \in TypeLabels \ {last'.label} :
                get_metric_type(registry', l) = get_metric_type(registry, l) ]_vars

\* a register call replaced a different strategy while the other label was
\* unregistered after having been registered
C3_Witness ==
    /\ last.op = "register_metric_type"
    /\ last.replaced \notin {None, last.strategy}
    /\ get_metric_type(registry, last.label) = last.strategy
    /\ \E l \in TypeLabels \ {last.label} :
         history[l].op = "unregister" /\ get_metric_type(registry, l) = None

\* C6: no two stored Metrics have the same slug; create_metric stores the slug
\* slugify derives from label when slug is omitted or empty and the given slug
\* otherwise; a call whose resulting slug is already stored fails with a
\* constraint violation and adds no Metric.
C6_UniqueSlug ==
    /\ [](\A i, j \in 1..Len(metrics) : metrics[i].slug = metrics[j].slug => i = j)
    /\ [][ (last'.op = "create_metric" /\ last'.metric_type_label \in DOMAIN registry)
           => LET wanted == IF last'.slug.given /\ last'.slug.value # << >>
                            THEN last'.slug.value
                            ELSE slugify(last'.label)
              IN IF \E i \in 1..Len(metrics) : metrics[i].slug = wanted
                 THEN last'.err = "IntegrityError" /\ metrics' = metrics
                 ELSE /\ last'.err = "none"
                      /\ Len(metrics') = Len(metrics) + 1
                      /\ SubSeq(metrics', 1, Len(metrics)) = metrics
                      /\ metrics'[Len(metrics')].slug = wanted
                      /\ metrics'[Len(metrics')].label = last'.label ]_vars

\* a second create_metric with no slug whose label gives the slug of a stored
\* Metric was refused, and the stored Metric carries the derived slug
C6_Witness ==
    /\ last.op = "create_metric"
    /\ last.err = "IntegrityError"
    /\ ~last.slug.given
    /\ \E m \in 1..Len(metrics) :
         /\ metrics[m].slug = slugify(last.label)
         /\ metrics[m].slug = <<"u", "-", "u">>
         /\ metrics[m].label # metrics[m].slug

\* C1: one collect_metrics call in which no strategy raises gives every Metric
\* with do_collect = true and a registered type label exactly one more
\* DatumSample and leaves the sample count of every Metric with
\* do_collect = false unchanged, whatever labels the other collectible Metrics
\* have.
C1_EveryResolvableGainsOne ==
    [][ (last'.op = "collect_metrics" /\ NoStrategyRaises)
        => \A m \in 1..Len(metrics) :
             /\ (metrics[m].do_collect /\ Registered(m))
                   => Count(samples', m) = Count(samples, m) + 1
             /\ (~metrics[m].do_collect)
                   => Count(samples', m) = Count(samples, m) ]_vars

\* C5: in a collect_metrics run over a Metric whose type label is not
\* registered and in which no strategy raises, the unregistered Metric gets
\* no DatumSample and every other collectible Metric gets its one sample.
C5_UnregisteredFailsAlone ==
    [][ (/\ last'.op = "collect_metrics"
         /\ NoStrategyRaises
         /\ \E m \in Collectible(metrics) : ~Registered(m))
        => \A m \in Collectible(metrics) :
             Count(samples', m) = Count(samples, m) + (IF Registered(m) THEN 1 ELSE 0) ]_vars

\* position of the first Metric of the order whose collection fails, 0 if none
FirstFailing(order) ==
    LET bad == {i \in 1..Len(order) : (~Registered(order[i])) \/ StrategyRaises(order[i])}
    IN IF bad = {} THEN 0 ELSE CHOOSE i \in bad : \A j \in bad : i <= j

\* C9: a successful collect_metric adds exactly one DatumSample, for its
\* Metric, carrying the value the resolved strategy returned; a failing one
\* adds none. A collect_metrics run stops at the first Metric whose strategy
\* raises: the error reaches the caller, the Metrics before it keep the one
\* sample each got, the failing Metric and those after it get none.
C9_CollectStopsAtFailure ==
    [][ /\ last'.op = "collect_metric"
           => LET m == last'.metric
              IN IF Registered(m) /\ ~StrategyRaises(m)
                 THEN /\ last'.err = "none"
                      /\ Len(samples') = Len(samples) + 1
                      /\ SubSeq(samples', 1, Len(samples)) = samples
                      /\ samples'[Len(samples')].metric = m
                      /\ samples'[Len(samples')].value =
                           gather_data_sample(registry[metrics[m].metric_type_label],
                                              metrics[m]).value
                 ELSE last'.err # "none" /\ samples' = samples
        /\ last'.op = "collect_metrics"
           => LET order == last'.order
                  k == FirstFailing(order)
                  done == IF k = 0 THEN Len(order) ELSE k - 1
              IN /\ last'.failedAt = k
                 /\ (k = 0) = (last'.err = "none")
                 /\ (k # 0 /\ StrategyRaises(order[k])) => last'.err = "StrategyError"
                 /\ Len(samples') = Len(samples) + done
                 /\ SubSeq(samples', 1, Len(samples)) = samples
                 /\ \A i \in 1..Len(order) :
                      Count(samples', order[i]) =
                          Count(samples, order[i]) + (IF i <= done THEN 1 ELSE 0)
                 /\ \A i \in 1..done :
                      /\ samples'[Len(samples) + i].metric = order[i]
                      /\ samples'[Len(samples) + i].value =
                           gather_data_sample(
                               registry[metrics[order[i]].metric_type_label],
                               metrics[order[i]]).value ]_vars

\* a run over two Metrics stopped at the first, whose strategy raised, and the
\* second, whose strategy returns a value, was left without a sample
C9_Witness ==
    /\ last.op = "collect_metrics"
    /\ last.err = "StrategyError"
    /\ Len(last.order) = 2
    /\ last.failedAt = 1
    /\ Registered(last.order[2]) /\ ~StrategyRaises(last.order[2])
    /\ Count(samples, last.order[2]) = 0

\* C10: a DatumSample, once stored, keeps its metric, utc_timestamp and value
\* and is never removed (the table after a step starts with the table before
\* it, so no Metric's sample count decreases); only collect_metric and
\* collect_metrics add samples;
\* every sample refers to a stored Metric; a newly created Metric has no
\* samples and has do_collect = true.
C10_SamplesAppendOnly ==
    /\ [](\A i \in 1..Len(samples) : samples[i].metric \in 1..Len(metrics))
    /\ [][ /\ Len(samples') >= Len(samples)
           /\ SubSeq(samples', 1, Len(samples)) = samples
           /\ samples' # samples => last'.op \in {"collect_metric", "collect_metrics"}
           /\ Len(metrics') > Len(metrics)
                => \A m \in (1..Len(metrics')) \ (1..Len(metrics)) :
                     /\ \A i \in 1..Len(samples') : samples'[i].metric # m
                     /\ metrics'[m].do_collect ]_vars

\* a Metric was created after another Metric had been collected twice
C10_Witness ==
    /\ last.op = "create_metric"
    /\ last.err = "none"
    /\ Count(samples, 1) >= 2
    /\ Count(samples, Len(metrics)) = 0

NewestOf(m) == CHOOSE i \in SamplesOf(samples, m) : \A j \in SamplesOf(samples, m) : j <= i

\* C4 as stated: get_latest_sample returns a sample of its Metric with the
\* maximal utc_timestamp, and it is the sample the latest collection created.
C4_LatestIsNewestCreated ==
    (last.op = "get_latest_sample" /\ last.err = "none")
    => /\ samples[last.ret].metric = last.metric
       /\ \A j \in SamplesOf(samples, last.metric) :
            samples[j].utc_timestamp <= samples[last.ret].utc_timestamp
       /\ last.ret = NewestOf(last.metric)

\* C4: get_latest_sample returns a sample of its Metric with the maximal
\* utc_timestamp; it is the sample the latest collection created whenever that
\* sample's utc_timestamp is strictly later than those of the Metric's other
\* samples.
C4_LatestHasMaxTimestamp ==
    (last.op = "get_latest_sample" /\ last.err = "none")
    => /\ samples[last.ret].metric = last.metric
       /\ \A j \in SamplesOf(samples, last.metric) :
            samples[j].utc_timestamp <= samples[last.ret].utc_timestamp
       /\ (\A j \in SamplesOf(samples, last.metric) \ {NewestOf(last.metric)} :
             samples[j].utc_timestamp < samples[NewestOf(last.metric)].utc_timestamp)
          => last.ret = NewestOf(last.metric)

\* the Metric has two samples with different timestamps and the call returned
\* the later one
C4_Witness ==
    /\ last.op = "get_latest_sample"
    /\ last.err = "none"
    /\ Count(samples, last.metric) = 2
    /\ \E j \in SamplesOf(samples, last.metric) :
         samples[j].utc_timestamp < samples[last.ret].utc_timestamp
    /\ last.ret = NewestOf(last.metric)

\* C7: there is at most one DashboardPanel per (metric, dashboard) pair;
\* attaching a pair that is already attached fails and leaves the panels
\* unchanged, and attaching any other pair of a stored Metric and a stored
\* Dashboard succeeds and adds exactly that panel.
C7_OnePanelPerPair ==
    /\ [](\A i, j \in 1..Len(panels) :
            (panels[i].metric = panels[j].metric
             /\ panels[i].dashboard = panels[j].dashboard) => i = j)
    /\ [][ last'.op = "attach_panel"
           => IF \E i \in 1..Len(panels) :
                    panels[i].metric = last'.metric /\ panels[i].dashboard = last'.dashboard
              THEN last'.err = "IntegrityError" /\ panels' = panels
              ELSE /\ last'.err = "none"
                   /\ Len(panels') = Len(panels) + 1
                   /\ SubSeq(panels', 1, Len(panels)) = panels
                   /\ panels'[Len(panels')].metric = last'.metric
                   /\ panels'[Len(panels')].dashboard = last'.dashboard ]_vars

\* one Metric sits on two Dashboards, one Dashboard holds two Metrics, and a
\* second attachment of an attached pair was refused
C7_Witness ==
    /\ last.op = "attach_panel"
    /\ last.err = "IntegrityError"
    /\ \E i, j \in 1..Len(panels) :
         panels[i].metric = panels[j].metric /\ panels[i].dashboard # panels[j].dashboard
    /\ \E i, j \in 1..Len(panels) :
         panels[i].dashboard = panels[j].dashboard /\ panels[i].metric # panels[j].metric

\* C8 as stated: the mapping returned by get_metric_types keeps its content
\* across later register and unregister calls, and a change the caller makes
\* to it leaves what get_metric_type resolves unchanged.
C8_ReturnedIsSnapshot ==
    [][ /\ (held.kind # "nothing"
            /\ last'.op \in {"register_metric_type", "unregister_metric_type"})
           => Deref(held', registry') = Deref(held, registry)
        /\ last'.op \in {"returned_setitem", "returned_delitem"}
           => \A l \in TypeLabels :
                get_metric_type(registry', l) = get_metric_type(registry, l) ]_vars

\* C8: the mapping returned by get_metric_types is the registry's own mapping:
\* its content is at all times the registry's current content, so a later
\* register or unregister shows in it and a change the caller makes to it
\* changes what get_metric_type resolves.
C8_ReturnedIsLive ==
    /\ [](held.kind # "nothing" => Deref(held, registry) = registry)
    /\ [][ /\ (held.kind # "nothing" /\ last'.op = "register_metric_type")
              => get_metric_type(Deref(held', registry'), last'.label) = last'.strategy
           /\ (held.kind # "nothing" /\ last'.op = "unregister_metric_type")
              => get_metric_type(Deref(held', registry'), last'.label) = None
           /\ last'.op = "returned_setitem"
              => get_metric_type(registry', last'.label) = last'.strategy
           /\ last'.op = "returned_delitem"
              => get_metric_type(registry', last'.label) = None ]_vars

\* after get_metric_types a register call replaced a strategy, and the
\* mapping the caller holds shows the new one
C8_Witness ==
    /\ held.kind # "nothing"
    /\ last.op = "register_metric_type"
    /\ last.replaced \notin {None, last.strategy}
    /\ get_metric_type(Deref(held, registry), last.label) = last.strategy

====
